---- MODULE Spec2Model ----
(***************************************************************************)
(* KinectWrapper (src/KinectHandler/KinectWrapper.h) and the managed       *)
(* KinectHandler facade (src/KinectHandler/KinectHandler.h) as a state     *)
(* machine of two threads: the host thread, which calls initialize(),      *)
(* shutdown(), camera_enabled() and the readers, and the updater thread,   *)
(* which runs update() for ever.  The Kinect runtime (sensor, readers,     *)
(* waitable handles, frames) is the environment.  Neither thread takes a   *)
(* lock, so the steps of one thread interleave with those of the other.    *)
(***************************************************************************)
EXTENDS Integers, Sequences, FiniteSets, TLC

\* ---- bounds of the model ------------------------------------------------
\* joints of a body (JointType_Count is 25 in Kinect.h)
NumJoints == 2
\* body slots of a frame (BODY_COUNT is 6 in Kinect.h)
BodyCount == 2
\* distinct body / color frame contents the device delivers
MaxVal == 2
\* availability-changed events pending on the waitable handle
MaxEvents == 2
\* references to the sensor held at once (GetDefaultKinectSensor without Release)
MaxAcquire == 2
\* how far below JointHead and above JointManual the looked-up integers go
RoleMargin == 2
\* the depths of the points mapped go from -MaxDepth to MaxDepth
MaxDepth == 2
\* calls of ResetBuffer() that are counted
MaxResets == 2
\* unreleased frames of one kind that are counted
MaxHeld == 2

\* ---- program constants --------------------------------------------------
NULL == 0
CameraWidth == 1920
CameraHeight == 1080
BytesPerPixel == 4

JointIdx == 1..NumJoints
Slots == 1..BodyCount
Val == 1..MaxVal

\* what get_IsTracked and GetJoints / GetJointOrientations report of a slot;
\* NoBody is the null slot of a wrapper that has refreshed no frame
NoBody == [tracked |-> FALSE, data |-> 0]
Body == {NoBody} \cup [tracked : {TRUE}, data : Val]
NoBodies == [s \in Slots |-> NoBody]
\* the frames the device delivers, and the one frame of the lifecycle runs
AllFrames == [Slots -> Body]
OneFrame == {[s \in Slots |-> [tracked |-> TRUE, data |-> 1]]}

\* a reader of the Kinect runtime with its FrameArrived subscription
NoStream == [live |-> FALSE, subscribed |-> FALSE, handleOpen |-> FALSE, signalled |-> FALSE]
OpenStream == [live |-> TRUE, subscribed |-> TRUE, handleOpen |-> TRUE, signalled |-> FALSE]

VARIABLES
    \* KinectWrapper fields
    kinectSensor, bodyFrameReader, colorFrameReader,
    h_statusChangedEvent, h_bodyFrameEvent, h_colorFrameEvent,
    initialized_, skeleton_tracked_, rgb_stream_enabled_, updater_thread_,
    kinectBodies, skeleton_positions_, bone_orientations_,
    color_buffer_, size_in_bytes_, size_in_bytes_last_, color_pixels,
    \* the arrays of ResetBuffer(): how many new BYTE[size] were executed, the
    \* size of the live array, how many times ResetBuffer() ran (up to MaxResets)
    heap,
    \* the frames AcquireLatestFrame handed out that are not released yet:
    \* body frames, color frames (up to MaxHeld)
    heldFrames,
    \* Kinect runtime: references to the sensor, whether it is open, the
    \* device, the IsAvailableChanged subscription of h_statusChangedEvent and
    \* its pending events, the two readers
    sensorRefs, sensorOpen, deviceAvailable, statusSubscribed, statusQueue,
    bodyStream, colorStream,
    \* updater thread: position in update(), locals, threads started
    ppc, isAvailable, slot, copyPos, threads,
    \* host thread: position, value being returned, whether the last lifecycle
    \* call was a shutdown() that returned 0, list being returned
    hpc, ret, shutdownOk, trackedJoints,
    \* host thread: the argument, the value handed to the Kinect runtime and
    \* the result of the KinectJointType() or MapCoordinate() call in progress
    invocation

fields == <<kinectSensor, bodyFrameReader, colorFrameReader,
            h_statusChangedEvent, h_bodyFrameEvent, h_colorFrameEvent,
            initialized_, skeleton_tracked_, rgb_stream_enabled_, updater_thread_>>
skeleton == <<kinectBodies, skeleton_positions_, bone_orientations_>>
colorStore == <<color_buffer_, size_in_bytes_, size_in_bytes_last_, color_pixels, heap,
                heldFrames>>
runtime == <<sensorRefs, sensorOpen, deviceAvailable, statusSubscribed, statusQueue,
             bodyStream, colorStream>>
poller == <<ppc, isAvailable, slot, copyPos, threads>>
host == <<hpc, ret, shutdownOk, trackedJoints, invocation>>
vars == <<fields, skeleton, colorStore, runtime, poller, host>>

\* no KinectJointType() or MapCoordinate() call is in progress
NoCall == [in |-> 0, native |-> 0, out |-> <<>>]

ZeroJoints == [j \in JointIdx |-> 0]

Init ==
    /\ kinectSensor = NULL /\ bodyFrameReader = NULL /\ colorFrameReader = NULL
    /\ h_statusChangedEvent = NULL /\ h_bodyFrameEvent = NULL /\ h_colorFrameEvent = NULL
    /\ initialized_ = FALSE /\ skeleton_tracked_ = FALSE /\ rgb_stream_enabled_ = FALSE
    /\ updater_thread_ = FALSE
    /\ kinectBodies = NoBodies
    /\ skeleton_positions_ = ZeroJoints /\ bone_orientations_ = ZeroJoints
    /\ color_buffer_ = NULL /\ size_in_bytes_ = 0 /\ size_in_bytes_last_ = 0
    /\ color_pixels = 0 /\ heap = [news |-> 0, size |-> 0, resets |-> 0]
    /\ heldFrames = [body |-> 0, color |-> 0]
    /\ sensorRefs = 0 /\ sensorOpen = FALSE /\ deviceAvailable \in BOOLEAN
    /\ statusSubscribed = FALSE /\ statusQueue = <<>>
    /\ bodyStream = NoStream /\ colorStream = NoStream
    /\ ppc = "none" /\ isAvailable = FALSE /\ slot = 1 /\ copyPos = 1 /\ threads = 0
    /\ hpc = "idle" /\ ret = 0 /\ shutdownOk = FALSE /\ trackedJoints = <<>>
    /\ invocation = NoCall

\* ---- pure functions -----------------------------------------------------
CameraBufferSize == CameraWidth * CameraHeight * BytesPerPixel

is_initialized == initialized_

skeleton_tracked == skeleton_tracked_

\* color_buffer(): the buffer pointer and size_in_bytes_last_
color_buffer == <<color_buffer_, size_in_bytes_last_>>

\* GetImageBuffer(): <<>> for __nullptr, else <<size of the managed array>>
GetImageBuffer ==
    IF ~is_initialized \/ ~rgb_stream_enabled_ THEN <<>>
    ELSE IF color_buffer[1] = NULL \/ color_buffer[2] <= 0 THEN <<>>
    ELSE <<color_buffer[2]>>

\* a lifecycle call returns val: the host thread holds it until it goes on
Return(call, val) == hpc' = call /\ ret' = val

\* ---- host thread: initialize() ------------------------------------------
\* the host calls one facade method at a time
CallInitialize ==
    /\ hpc = "idle"
    /\ sensorRefs < MaxAcquire
    /\ hpc' = "initKinect"
    /\ shutdownOk' = FALSE
    /\ UNCHANGED <<fields, skeleton, colorStore, runtime, poller, ret, trackedJoints, invocation>>

\* initKinect() up to Open(): GetDefaultKinectSensor fails or yields no sensor
\* (initialized_ = false, return 1), or the sensor is held and Open() is tried
InitKinect_Open ==
    /\ hpc = "initKinect"
    /\ \/ /\ kinectSensor' = NULL
          /\ initialized_' = FALSE
          /\ Return("initialize_return", 1)
          /\ UNCHANGED <<sensorRefs, sensorOpen>>
       \/ /\ kinectSensor' = 1
          /\ sensorRefs' = sensorRefs + 1
          /\ \/ sensorOpen' = TRUE /\ hpc' = "initKinect_available"
             \/ sensorOpen' = sensorOpen /\ hpc' = "initKinect_openFailed"
          /\ UNCHANGED <<initialized_, ret>>
    /\ UNCHANGED <<bodyFrameReader, colorFrameReader, h_statusChangedEvent,
                   h_bodyFrameEvent, h_colorFrameEvent, skeleton_tracked_,
                   rgb_stream_enabled_, updater_thread_>>
    /\ UNCHANGED <<skeleton, colorStore, deviceAvailable, statusSubscribed, statusQueue,
                   bodyStream, colorStream, poller, shutdownOk, trackedJoints, invocation>>

\* initKinect() after the two seconds: FAILED(hr_open)
InitKinect_OpenFailed ==
    /\ hpc = "initKinect_openFailed"
    /\ initialized_' = FALSE
    /\ Return("initialize_return", 1)
    /\ UNCHANGED <<kinectSensor, bodyFrameReader, colorFrameReader, h_statusChangedEvent,
                   h_bodyFrameEvent, h_colorFrameEvent, skeleton_tracked_,
                   rgb_stream_enabled_, updater_thread_>>
    /\ UNCHANGED <<skeleton, colorStore, runtime, poller, shutdownOk, trackedJoints, invocation>>

\* initKinect() after the two seconds: the availability check, then
\* SubscribeIsAvailableChanged hands out a new waitable handle; initialize()
\* stores initKinect()'s result in initialized_
InitKinect_Available ==
    /\ hpc = "initKinect_available"
    /\ IF deviceAvailable
         THEN /\ h_statusChangedEvent' = 1
              /\ statusSubscribed' = TRUE
              /\ statusQueue' = <<>>
              /\ initialized_' = TRUE
              /\ hpc' = "initializeSkeleton"
              /\ UNCHANGED ret
         ELSE /\ initialized_' = FALSE
              /\ Return("initialize_return", 1)
              /\ UNCHANGED <<h_statusChangedEvent, statusSubscribed, statusQueue>>
    /\ UNCHANGED <<kinectSensor, bodyFrameReader, colorFrameReader,
                   h_bodyFrameEvent, h_colorFrameEvent, skeleton_tracked_,
                   rgb_stream_enabled_, updater_thread_>>
    /\ UNCHANGED <<skeleton, colorStore, sensorRefs, sensorOpen, deviceAvailable,
                   bodyStream, colorStream, poller, shutdownOk, trackedJoints, invocation>>

\* initializeSkeleton(): the old reader is released, a reader is opened and
\* subscribed.  When OpenReader fails the reader pointer is null, CreateEvent
\* still stores an event nobody signals, and the call through the null reader
\* faults; initialize() catches the fault and returns -1
InitializeSkeleton ==
    /\ hpc = "initializeSkeleton"
    /\ \/ /\ bodyFrameReader' = 1
          /\ h_bodyFrameEvent' = 1
          /\ bodyStream' = OpenStream
          /\ hpc' = "initializeColor"
          /\ UNCHANGED ret
       \/ /\ bodyFrameReader' = NULL
          /\ h_bodyFrameEvent' = 1
          /\ bodyStream' = [NoStream EXCEPT !.handleOpen = TRUE]
          /\ Return("initialize_return", -1)
    /\ UNCHANGED <<kinectSensor, colorFrameReader, h_statusChangedEvent,
                   h_colorFrameEvent, initialized_, skeleton_tracked_,
                   rgb_stream_enabled_, updater_thread_>>
    /\ UNCHANGED <<skeleton, colorStore, sensorRefs, sensorOpen, deviceAvailable,
                   statusSubscribed, statusQueue, colorStream, poller, shutdownOk,
                   trackedJoints, invocation>>

\* initializeColor(): as initializeSkeleton(), for the color reader
InitializeColor ==
    /\ hpc = "initializeColor"
    /\ \/ /\ colorFrameReader' = 1
          /\ h_colorFrameEvent' = 1
          /\ colorStream' = OpenStream
          /\ hpc' = "initialize_thread"
          /\ UNCHANGED ret
       \/ /\ colorFrameReader' = NULL
          /\ h_colorFrameEvent' = 1
          /\ colorStream' = [NoStream EXCEPT !.handleOpen = TRUE]
          /\ Return("initialize_return", -1)
    /\ UNCHANGED <<kinectSensor, bodyFrameReader, h_statusChangedEvent,
                   h_bodyFrameEvent, initialized_, skeleton_tracked_,
                   rgb_stream_enabled_, updater_thread_>>
    /\ UNCHANGED <<skeleton, colorStore, sensorRefs, sensorOpen, deviceAvailable,
                   statusSubscribed, statusQueue, bodyStream, poller, shutdownOk,
                   trackedJoints, invocation>>

\* a new std::thread running updater()
StartUpdater ==
    /\ updater_thread_' = TRUE
    /\ threads' = threads + 1
    /\ ppc' = "update"

\* "Recreate the updater thread" with the test of updater_thread_ left out
RecreateUpdater_Always == StartUpdater

\* if (!updater_thread_) updater_thread_.reset(new std::thread(...))
RecreateUpdater ==
    IF ~updater_thread_ THEN StartUpdater
    ELSE UNCHANGED <<updater_thread_, threads, ppc>>

\* the end of initialize(): the updater thread, return 0; the std::thread
\* constructor may throw, which initialize() turns into -1
Initialize_Thread ==
    /\ hpc = "initialize_thread"
    /\ \/ RecreateUpdater /\ Return("initialize_return", 0)
       \/ /\ ~updater_thread_
          /\ Return("initialize_return", -1)
          /\ UNCHANGED <<updater_thread_, threads, ppc>>
    /\ UNCHANGED <<kinectSensor, bodyFrameReader, colorFrameReader, h_statusChangedEvent,
                   h_bodyFrameEvent, h_colorFrameEvent, initialized_, skeleton_tracked_,
                   rgb_stream_enabled_>>
    /\ UNCHANGED <<skeleton, colorStore, runtime, isAvailable, slot, copyPos,
                   shutdownOk, trackedJoints, invocation>>

\* the caller has the result of initialize() or shutdown()
Lifecycle_Return ==
    /\ hpc \in {"initialize_return", "shutdown_return"}
    /\ hpc' = "idle"
    /\ ret' = 0
    /\ UNCHANGED <<fields, skeleton, colorStore, runtime, poller, shutdownOk, trackedJoints, invocation>>

\* ---- host thread: shutdown() --------------------------------------------
CallShutdown ==
    /\ hpc = "idle"
    /\ hpc' = "shutdown"
    /\ UNCHANGED <<fields, skeleton, colorStore, runtime, poller, ret, shutdownOk,
                   trackedJoints, invocation>>

\* if (kinectSensor) ... else return 1
Shutdown_Enter ==
    /\ hpc = "shutdown"
    /\ IF kinectSensor # NULL
         THEN hpc' = "terminateSkeleton" /\ UNCHANGED ret
         ELSE Return("shutdown_return", 1)
    /\ UNCHANGED <<fields, skeleton, colorStore, runtime, poller, shutdownOk, trackedJoints, invocation>>

\* terminateSkeleton() going on after a failed UnsubscribeFrameArrived
TerminateSkeleton_IgnoreFailure ==
    /\ hpc = "terminateSkeleton"
    /\ IF bodyFrameReader = NULL
         THEN hpc' = "terminateColor" /\ UNCHANGED <<bodyStream, ret>>
         ELSE \/ hpc' = "terminateSkeleton_clear" /\ UNCHANGED <<bodyStream, ret>>
              \/ /\ bodyStream' = NoStream
                 /\ hpc' = "terminateSkeleton_clear"
                 /\ UNCHANGED ret
    /\ UNCHANGED <<fields, skeleton, colorStore, sensorRefs, sensorOpen, deviceAvailable,
                   statusSubscribed, statusQueue, colorStream, poller, shutdownOk,
                   trackedJoints, invocation>>

\* terminateSkeleton() up to Release(): nothing without a reader; a failed
\* UnsubscribeFrameArrived throws and shutdown() returns -1; else the handle is
\* closed and the reader released
TerminateSkeleton ==
    /\ hpc = "terminateSkeleton"
    /\ IF bodyFrameReader = NULL
         THEN hpc' = "terminateColor" /\ UNCHANGED <<bodyStream, ret>>
         ELSE \/ Return("shutdown_return", -1) /\ UNCHANGED bodyStream
              \/ /\ bodyStream' = NoStream
                 /\ hpc' = "terminateSkeleton_clear"
                 /\ UNCHANGED ret
    /\ UNCHANGED <<fields, skeleton, colorStore, sensorRefs, sensorOpen, deviceAvailable,
                   statusSubscribed, statusQueue, colorStream, poller, shutdownOk,
                   trackedJoints, invocation>>

\* h_bodyFrameEvent = NULL; bodyFrameReader = nullptr
TerminateSkeleton_Clear ==
    /\ hpc = "terminateSkeleton_clear"
    /\ h_bodyFrameEvent' = NULL
    /\ bodyFrameReader' = NULL
    /\ hpc' = "terminateColor"
    /\ UNCHANGED <<kinectSensor, colorFrameReader, h_statusChangedEvent,
                   h_colorFrameEvent, initialized_, skeleton_tracked_,
                   rgb_stream_enabled_, updater_thread_>>
    /\ UNCHANGED <<skeleton, colorStore, runtime, poller, ret, shutdownOk, trackedJoints, invocation>>

\* terminateColor() up to Release()
TerminateColor ==
    /\ hpc = "terminateColor"
    /\ IF colorFrameReader = NULL
         THEN hpc' = "shutdown_flag" /\ UNCHANGED <<colorStream, ret>>
         ELSE \/ Return("shutdown_return", -1) /\ UNCHANGED colorStream
              \/ /\ colorStream' = NoStream
                 /\ hpc' = "terminateColor_clear"
                 /\ UNCHANGED ret
    /\ UNCHANGED <<fields, skeleton, colorStore, sensorRefs, sensorOpen, deviceAvailable,
                   statusSubscribed, statusQueue, bodyStream, poller, shutdownOk,
                   trackedJoints, invocation>>

\* h_colorFrameEvent = NULL; colorFrameReader = nullptr
TerminateColor_Clear ==
    /\ hpc = "terminateColor_clear"
    /\ h_colorFrameEvent' = NULL
    /\ colorFrameReader' = NULL
    /\ hpc' = "shutdown_flag"
    /\ UNCHANGED <<kinectSensor, bodyFrameReader, h_statusChangedEvent,
                   h_bodyFrameEvent, initialized_, skeleton_tracked_,
                   rgb_stream_enabled_, updater_thread_>>
    /\ UNCHANGED <<skeleton, colorStore, runtime, poller, ret, shutdownOk, trackedJoints, invocation>>

\* initialized_ = false
Shutdown_Flag ==
    /\ hpc = "shutdown_flag"
    /\ initialized_' = FALSE
    /\ hpc' = "shutdown_close"
    /\ UNCHANGED <<kinectSensor, bodyFrameReader, colorFrameReader, h_statusChangedEvent,
                   h_bodyFrameEvent, h_colorFrameEvent, skeleton_tracked_,
                   rgb_stream_enabled_, updater_thread_>>
    /\ UNCHANGED <<skeleton, colorStore, runtime, poller, ret, shutdownOk, trackedJoints, invocation>>

\* kinectSensor->Close(); kinectSensor->Release(); a structured exception in
\* either ends shutdown() with -2
Shutdown_Close ==
    /\ hpc = "shutdown_close"
    /\ \/ /\ sensorOpen' = FALSE
          /\ sensorRefs' = sensorRefs - 1
          /\ hpc' = "shutdown_null"
          /\ UNCHANGED ret
       \/ /\ Return("shutdown_return", -2)
          /\ UNCHANGED <<sensorOpen, sensorRefs>>
    /\ UNCHANGED <<fields, skeleton, colorStore, deviceAvailable, statusSubscribed,
                   statusQueue, bodyStream, colorStream, poller, shutdownOk, trackedJoints, invocation>>

\* shutdown() returning 0 with the device handle left as it is
Shutdown_Null_KeepHandle ==
    /\ hpc = "shutdown_null"
    /\ Return("shutdown_return", 0)
    /\ shutdownOk' = TRUE
    /\ UNCHANGED <<fields, skeleton, colorStore, runtime, poller, trackedJoints, invocation>>

\* kinectSensor = nullptr; return 0
Shutdown_Null ==
    /\ hpc = "shutdown_null"
    /\ kinectSensor' = NULL
    /\ Return("shutdown_return", 0)
    /\ shutdownOk' = TRUE
    /\ UNCHANGED <<bodyFrameReader, colorFrameReader, h_statusChangedEvent,
                   h_bodyFrameEvent, h_colorFrameEvent, initialized_, skeleton_tracked_,
                   rgb_stream_enabled_, updater_thread_>>
    /\ UNCHANGED <<skeleton, colorStore, runtime, poller, trackedJoints, invocation>>

\* ---- host thread: the other facade methods ------------------------------
\* camera_enabled(bool)
SetCameraEnabled ==
    /\ hpc = "idle"
    /\ \E enabled \in BOOLEAN : rgb_stream_enabled_' = enabled
    /\ UNCHANGED <<kinectSensor, bodyFrameReader, colorFrameReader, h_statusChangedEvent,
                   h_bodyFrameEvent, h_colorFrameEvent, initialized_, skeleton_tracked_,
                   updater_thread_>>
    /\ UNCHANGED <<skeleton, colorStore, runtime, poller, host>>

\* the List<KinectJoint^> built from the two copied arrays: one entry per joint
JointList(positions, orientations) ==
    [j \in JointIdx |-> [Position |-> positions[j], Orientation |-> orientations[j]]]

CallGetTrackedKinectJoints ==
    /\ hpc = "idle"
    /\ hpc' = "GetTrackedKinectJoints"
    /\ UNCHANGED <<fields, skeleton, colorStore, runtime, poller, ret, shutdownOk,
                   trackedJoints, invocation>>

\* GetTrackedKinectJoints() with the test of IsInitialized left out
GetTrackedKinectJoints_Unchecked ==
    /\ hpc = "GetTrackedKinectJoints"
    /\ trackedJoints' = <<>>
    /\ hpc' = "skeleton_positions"
    /\ UNCHANGED <<fields, skeleton, colorStore, runtime, poller, ret, shutdownOk, invocation>>

\* if (!IsInitialized) return gcnew List<KinectJoint^>
GetTrackedKinectJoints_Check ==
    /\ hpc = "GetTrackedKinectJoints"
    /\ trackedJoints' = <<>>
    /\ hpc' = IF is_initialized THEN "skeleton_positions" ELSE "joints_return"
    /\ UNCHANGED <<fields, skeleton, colorStore, runtime, poller, ret, shutdownOk, invocation>>

\* positions = kinect_->skeleton_positions(): a copy of the array
GetTrackedKinectJoints_Positions ==
    /\ hpc = "skeleton_positions"
    /\ trackedJoints' = <<skeleton_positions_>>
    /\ hpc' = "bone_orientations"
    /\ UNCHANGED <<fields, skeleton, colorStore, runtime, poller, ret, shutdownOk, invocation>>

\* orientations = kinect_->bone_orientations(), then the list is built
GetTrackedKinectJoints_Orientations ==
    /\ hpc = "bone_orientations"
    /\ trackedJoints' = JointList(trackedJoints[1], bone_orientations_)
    /\ hpc' = "joints_return"
    /\ UNCHANGED <<fields, skeleton, colorStore, runtime, poller, ret, shutdownOk, invocation>>

\* the caller takes the list
GetTrackedKinectJoints_Return ==
    /\ hpc = "joints_return"
    /\ trackedJoints' = <<>>
    /\ hpc' = "idle"
    /\ UNCHANGED <<fields, skeleton, colorStore, runtime, poller, ret, shutdownOk, invocation>>

\* ---- host thread: KinectJointType() and MapCoordinate() -----------------
\* enum JointType: JointHead = 0 ... JointFootTipRight = 24, JointManual = 25
JointManual == 25

\* the _JointType enumerators of KinectJointTypeDictionary in the order of its
\* keys JointHead ... JointFootTipRight; each enumerator is one native index
KinectJointTypeNames ==
    << "JointType_Head", "JointType_Neck", "JointType_SpineShoulder",
       "JointType_ShoulderLeft", "JointType_ElbowLeft", "JointType_WristLeft",
       "JointType_HandLeft", "JointType_HandTipLeft", "JointType_ThumbLeft",
       "JointType_ShoulderRight", "JointType_ElbowRight", "JointType_WristRight",
       "JointType_HandRight", "JointType_HandTipRight", "JointType_ThumbRight",
       "JointType_SpineMid", "JointType_SpineBase", "JointType_HipLeft",
       "JointType_KneeLeft", "JointType_AnkleLeft", "JointType_FootLeft",
       "JointType_HipRight", "JointType_KneeRight", "JointType_AnkleRight",
       "JointType_FootRight" >>

\* std::map<JointType, _JointType>: JointManual has no entry
KinectJointTypeDictionary ==
    [k \in 0..(Len(KinectJointTypeNames) - 1) |-> KinectJointTypeNames[k + 1]]

\* a lookup with operator[], which yields the zero enumerator for a key the
\* map does not hold
KinectJointType_Subscript(kinectJointType) ==
    IF kinectJointType \in DOMAIN KinectJointTypeDictionary
      THEN KinectJointTypeDictionary[kinectJointType]
      ELSE "JointType_SpineBase"

\* KinectJointTypeDictionary.at(static_cast<JointType>(kinectJointType)):
\* std::map::at throws std::out_of_range for a key the map does not hold
KinectJointType(kinectJointType) ==
    IF kinectJointType \in DOMAIN KinectJointTypeDictionary
      THEN KinectJointTypeDictionary[kinectJointType]
      ELSE "out_of_range"

\* the integers the host hands to KinectJointType()
JointTypeInputs == (0 - RoleMargin)..(JointManual + RoleMargin)

CallKinectJointType ==
    /\ hpc = "idle"
    /\ \E kinectJointType \in JointTypeInputs :
          invocation' = [NoCall EXCEPT !.in = kinectJointType]
    /\ hpc' = "KinectJointType"
    /\ UNCHANGED <<fields, skeleton, colorStore, runtime, poller, ret, shutdownOk,
                   trackedJoints>>

KinectJointType_At ==
    /\ hpc = "KinectJointType"
    /\ invocation' = [invocation EXCEPT !.out = KinectJointType(invocation.in)]
    /\ hpc' = "KinectJointType_return"
    /\ UNCHANGED <<fields, skeleton, colorStore, runtime, poller, ret, shutdownOk,
                   trackedJoints>>

\* the caller has the result of KinectJointType() or MapCoordinate()
Facade_Return ==
    /\ hpc \in {"KinectJointType_return", "MapCoordinate_return"}
    /\ invocation' = NoCall
    /\ hpc' = "idle"
    /\ UNCHANGED <<fields, skeleton, colorStore, runtime, poller, ret, shutdownOk,
                   trackedJoints>>

\* the depths (Z) of the points the host hands to MapCoordinate()
Depths == (0 - MaxDepth)..MaxDepth

\* ICoordinateMapper::MapCameraPointToColorSpace for a point of this depth:
\* the HRESULT and the ColorSpacePoint.  A point in front of the camera maps
\* to a pixel or to no pixel (nan: X and Y are NaN); for a depth that is not positive the
\* projection is not defined and the runtime may answer anything
MapCameraPointToColorSpace(depth) ==
    IF depth > 0
      THEN {[hr |-> "S_OK", nan |-> FALSE, X |-> depth, Y |-> depth],
            [hr |-> "S_OK", nan |-> TRUE, X |-> 0, Y |-> 0]}
      ELSE {[hr |-> "S_OK", nan |-> TRUE, X |-> 0, Y |-> 0],
            [hr |-> "E_FAIL", nan |-> FALSE, X |-> 0, Y |-> 0]}
           \cup {[hr |-> "S_OK", nan |-> FALSE, X |-> d, Y |-> d] : d \in Depths}

\* the facade's MapCoordinate(position) is entered
CallMapCoordinate ==
    /\ hpc = "idle"
    /\ \E z \in Depths : invocation' = [NoCall EXCEPT !.in = z]
    /\ hpc' = "MapCoordinate"
    /\ UNCHANGED <<fields, skeleton, colorStore, runtime, poller, ret, shutdownOk,
                   trackedJoints>>

\* if (!IsInitialized) return Drawing::Size::Empty; else the wrapper's
\* MapCoordinate() hands the point as it is to the coordinate mapper
MapCoordinate_Enter ==
    /\ hpc = "MapCoordinate"
    /\ IF ~is_initialized
         THEN /\ invocation' = [invocation EXCEPT !.out = <<0, 0>>]
              /\ hpc' = "MapCoordinate_return"
         ELSE /\ invocation' = [invocation EXCEPT !.native = invocation.in]
              /\ hpc' = "MapCameraPointToColorSpace"
    /\ UNCHANGED <<fields, skeleton, colorStore, runtime, poller, ret, shutdownOk,
                   trackedJoints>>

\* SUCCEEDED(result) && !isnan(X) && !isnan(Y) ? (X, Y) : (-1, -1)
MapCoordinate_Project ==
    /\ hpc = "MapCameraPointToColorSpace"
    /\ \E spacePoint \in MapCameraPointToColorSpace(invocation.native) :
          invocation' = [invocation EXCEPT !.out =
              IF spacePoint.hr = "S_OK" /\ ~spacePoint.nan
                THEN <<spacePoint.X, spacePoint.Y>> ELSE <<-1, -1>>]
    /\ hpc' = "MapCoordinate_return"
    /\ UNCHANGED <<fields, skeleton, colorStore, runtime, poller, ret, shutdownOk,
                   trackedJoints>>

\* ---- Kinect runtime -----------------------------------------------------
\* the device becomes available or unavailable; the subscribed handle gets
\* the event
AvailabilityChanged ==
    /\ statusSubscribed => Len(statusQueue) < MaxEvents
    /\ deviceAvailable' = ~deviceAvailable
    /\ statusQueue' = IF statusSubscribed THEN Append(statusQueue, ~deviceAvailable)
                      ELSE statusQueue
    /\ UNCHANGED <<fields, skeleton, colorStore, sensorRefs, sensorOpen, statusSubscribed,
                   bodyStream, colorStream, poller, host>>

\* a body frame arrives: the subscribed event is set
BodyFrameArrived ==
    /\ sensorOpen /\ deviceAvailable
    /\ bodyStream.subscribed /\ ~bodyStream.signalled
    /\ bodyStream' = [bodyStream EXCEPT !.signalled = TRUE]
    /\ UNCHANGED <<fields, skeleton, colorStore, sensorRefs, sensorOpen, deviceAvailable,
                   statusSubscribed, statusQueue, colorStream, poller, host>>

\* a color frame arrives
ColorFrameArrived ==
    /\ sensorOpen /\ deviceAvailable
    /\ colorStream.subscribed /\ ~colorStream.signalled
    /\ colorStream' = [colorStream EXCEPT !.signalled = TRUE]
    /\ UNCHANGED <<fields, skeleton, colorStore, sensorRefs, sensorOpen, deviceAvailable,
                   statusSubscribed, statusQueue, bodyStream, poller, host>>

\* ---- updater thread: update(), the availability probe -------------------
\* tryCef: if (kinectSensor)
Update_Probe ==
    /\ ppc = "update"
    /\ ppc' = IF kinectSensor # NULL THEN "update_eventData" ELSE "update_guard"
    /\ UNCHANGED <<fields, skeleton, colorStore, runtime, host, isAvailable, slot,
                   copyPos, threads>>

\* kinectSensor->GetIsAvailableChangedEventData(h_statusChangedEvent, &args):
\* S_OK with the oldest pending event, or not S_OK.  When shutdown() has
\* cleared or released the sensor since the test, the call may also fault,
\* which tryCef swallows
Update_EventData ==
    /\ ppc = "update_eventData"
    /\ \/ /\ statusQueue # <<>>
          /\ isAvailable' = Head(statusQueue)
          /\ statusQueue' = Tail(statusQueue)
          /\ ppc' = "update_notify"
       \/ /\ statusQueue = <<>> \/ kinectSensor = NULL \/ sensorRefs = 0
          /\ ppc' = "update_guard"
          /\ UNCHANGED <<isAvailable, statusQueue>>
    /\ UNCHANGED <<fields, skeleton, colorStore, sensorRefs, sensorOpen, deviceAvailable,
                   statusSubscribed, bodyStream, colorStream, host, slot, copyPos, threads>>

\* the probe going on without the call of status_changed_event()
Update_Notify_Silent ==
    /\ ppc = "update_notify"
    /\ initialized_' = isAvailable
    /\ isAvailable' = FALSE
    /\ ppc' = "update_guard"
    /\ UNCHANGED <<kinectSensor, bodyFrameReader, colorFrameReader, h_statusChangedEvent,
                   h_bodyFrameEvent, h_colorFrameEvent, skeleton_tracked_,
                   rgb_stream_enabled_, updater_thread_>>
    /\ UNCHANGED <<skeleton, colorStore, runtime, host, slot, copyPos, threads>>

\* initialized_ = isAvailable; status_changed_event() is entered
Update_Notify ==
    /\ ppc = "update_notify"
    /\ initialized_' = isAvailable
    /\ isAvailable' = FALSE
    /\ ppc' = "status_changed_event"
    /\ UNCHANGED <<kinectSensor, bodyFrameReader, colorFrameReader, h_statusChangedEvent,
                   h_bodyFrameEvent, h_colorFrameEvent, skeleton_tracked_,
                   rgb_stream_enabled_, updater_thread_>>
    /\ UNCHANGED <<skeleton, colorStore, runtime, host, slot, copyPos, threads>>

\* StatusChangedHandler() returns or throws; tryCef swallows what it throws
StatusChangedHandler ==
    /\ ppc = "status_changed_event"
    /\ ppc' = "update_guard"
    /\ UNCHANGED <<fields, skeleton, colorStore, runtime, host, isAvailable, slot,
                   copyPos, threads>>

\* if (initialized_ && kinectSensor), else the iteration ends
Update_Guard ==
    /\ ppc = "update_guard"
    /\ ppc' = IF initialized_ /\ kinectSensor # NULL THEN "update_status" ELSE "update"
    /\ UNCHANGED <<fields, skeleton, colorStore, runtime, host, isAvailable, slot,
                   copyPos, threads>>

\* kinectSensor->get_IsAvailable(&isAvailable) == S_OK.  No handler guards
\* this call: through a sensor shutdown() has cleared or released since the
\* test it may answer either way, or fault, which ends the process and with
\* it both threads
Update_Status ==
    /\ ppc = "update_status"
    /\ \/ ppc' = "update_bodyHandle" /\ UNCHANGED hpc
       \/ /\ kinectSensor = NULL \/ sensorRefs = 0
          /\ \/ ppc' = "update" /\ UNCHANGED hpc
             \/ ppc' = "crashed" /\ hpc' = "crashed"
    /\ UNCHANGED <<fields, skeleton, colorStore, runtime, ret, shutdownOk, trackedJoints,
                   isAvailable, slot, copyPos, threads, invocation>>

\* ---- updater thread: the body frame -------------------------------------
\* if (h_bodyFrameEvent)
Update_BodyHandle ==
    /\ ppc = "update_bodyHandle"
    /\ ppc' = IF h_bodyFrameEvent # NULL THEN "update_bodyWait" ELSE "update_colorHandle"
    /\ UNCHANGED <<fields, skeleton, colorStore, runtime, host, isAvailable, slot,
                   copyPos, threads>>

\* MsgWaitForMultipleObjects(handles, 3000) == WAIT_OBJECT_0: the event was
\* set and is reset by the wait; else the wait times out or fails
Update_BodyWait ==
    /\ ppc = "update_bodyWait"
    /\ IF bodyStream.handleOpen /\ bodyStream.signalled
         THEN /\ bodyStream' = [bodyStream EXCEPT !.signalled = FALSE]
              /\ ppc' = "update_bodyArgs"
         ELSE /\ ppc' = "update_colorHandle"
              /\ UNCHANGED bodyStream
    /\ UNCHANGED <<fields, skeleton, colorStore, sensorRefs, sensorOpen, deviceAvailable,
                   statusSubscribed, statusQueue, colorStream, host, isAvailable, slot,
                   copyPos, threads>>

\* bodyFrameReader && SUCCEEDED(bodyFrameReader->GetFrameArrivedEventData(...))
Update_BodyArgs ==
    /\ ppc = "update_bodyArgs"
    /\ \/ bodyFrameReader # NULL /\ ppc' = "updateSkeletalData"
       \/ ppc' = "update_colorHandle"
    /\ UNCHANGED <<fields, skeleton, colorStore, runtime, host, isAvailable, slot,
                   copyPos, threads>>

\* AcquireLatestFrame(&frame) has handed out a frame of this kind
Acquired(held, kind) ==
    [held EXCEPT ![kind] = IF held[kind] < MaxHeld THEN held[kind] + 1 ELSE held[kind]]

\* frame->Release()
Released(held, kind) == [held EXCEPT ![kind] = held[kind] - 1]

\* updateSkeletalData() up to the loop: no reader or no frame, return; else
\* GetAndRefreshBodyData fills kinectBodies and the frame is released
UpdateSkeletalData_Acquire(frames) ==
    /\ ppc = "updateSkeletalData"
    /\ \/ /\ bodyFrameReader # NULL
          /\ \E frame \in frames : kinectBodies' = frame
          /\ heldFrames' = Released(Acquired(heldFrames, "body"), "body")
          /\ slot' = 1
          /\ ppc' = "updateSkeletalData_slot"
       \/ /\ ppc' = "update_colorHandle"
          /\ UNCHANGED <<kinectBodies, heldFrames, slot>>
    /\ UNCHANGED <<fields, skeleton_positions_, bone_orientations_, color_buffer_,
                   size_in_bytes_, size_in_bytes_last_, color_pixels, heap, runtime,
                   host, isAvailable, copyPos, threads>>

\* i->GetJoints(JointType_Count, joints) of the slot the loop is at
joints == [j \in JointIdx |-> kinectBodies[slot].data]

\* i->GetJointOrientations(JointType_Count, boneOrientations)
boneOrientations == [j \in JointIdx |-> kinectBodies[slot].data]

\* a slot that reports tracked, with the flag left as it was
TrackedSlot_KeepFlag ==
    /\ copyPos' = 1
    /\ ppc' = "copy_positions"
    /\ UNCHANGED <<slot, skeleton_tracked_>>

\* isSkeletonTracked: skeleton_tracked_ = true; GetJoints; GetJointOrientations
TrackedSlot ==
    /\ skeleton_tracked_' = TRUE
    /\ copyPos' = 1
    /\ ppc' = "copy_positions"
    /\ UNCHANGED slot

\* a slot that does not report tracked, with the flag left as it was
UntrackedSlot_KeepFlag ==
    /\ slot' = slot + 1
    /\ UNCHANGED <<skeleton_tracked_, copyPos, ppc>>

\* not tracked: skeleton_tracked_ = false, next slot
UntrackedSlot ==
    /\ skeleton_tracked_' = FALSE
    /\ slot' = slot + 1
    /\ UNCHANGED <<copyPos, ppc>>

\* for (const auto& i : kinectBodies): one slot, or the end of the loop
UpdateSkeletalData_Slot ==
    /\ ppc = "updateSkeletalData_slot"
    /\ IF slot > BodyCount
         THEN /\ ppc' = "updateSkeletalData_return"
              /\ UNCHANGED <<slot, skeleton_tracked_, copyPos>>
         ELSE IF kinectBodies[slot].tracked THEN TrackedSlot ELSE UntrackedSlot
    /\ UNCHANGED <<kinectSensor, bodyFrameReader, colorFrameReader, h_statusChangedEvent,
                   h_bodyFrameEvent, h_colorFrameEvent, initialized_, rgb_stream_enabled_,
                   updater_thread_>>
    /\ UNCHANGED <<skeleton, colorStore, runtime, host, isAvailable, threads>>

\* std::copy(joints -> skeleton_positions_), one element a step
Copy_Positions ==
    /\ ppc = "copy_positions"
    /\ skeleton_positions_' = [skeleton_positions_ EXCEPT ![copyPos] = joints[copyPos]]
    /\ IF copyPos < NumJoints
         THEN copyPos' = copyPos + 1 /\ ppc' = ppc
         ELSE copyPos' = 1 /\ ppc' = "copy_orientations"
    /\ UNCHANGED <<fields, kinectBodies, bone_orientations_, colorStore, runtime, host,
                   isAvailable, slot, threads>>

\* the second std::copy followed by the next slot instead of break
Copy_Orientations_NoBreak ==
    /\ ppc = "copy_orientations"
    /\ bone_orientations_' = [bone_orientations_ EXCEPT ![copyPos] = boneOrientations[copyPos]]
    /\ IF copyPos < NumJoints
         THEN copyPos' = copyPos + 1 /\ ppc' = ppc /\ slot' = slot
         ELSE copyPos' = 1 /\ ppc' = "updateSkeletalData_slot" /\ slot' = slot + 1
    /\ UNCHANGED <<fields, kinectBodies, skeleton_positions_, colorStore, runtime, host,
                   isAvailable, threads>>

\* std::copy(boneOrientations -> bone_orientations_), one element a step; break
Copy_Orientations ==
    /\ ppc = "copy_orientations"
    /\ bone_orientations_' = [bone_orientations_ EXCEPT ![copyPos] = boneOrientations[copyPos]]
    /\ IF copyPos < NumJoints
         THEN copyPos' = copyPos + 1 /\ ppc' = ppc
         ELSE copyPos' = 1 /\ ppc' = "updateSkeletalData_return"
    /\ UNCHANGED <<fields, kinectBodies, skeleton_positions_, colorStore, runtime, host,
                   isAvailable, slot, threads>>

\* updateSkeletalData() returns; pArgs->Release().  Nothing reads the bodies
\* of this frame again: the next dispatch refreshes them first
UpdateSkeletalData_Return ==
    /\ ppc = "updateSkeletalData_return"
    /\ slot' = 1
    /\ kinectBodies' = NoBodies
    /\ ppc' = "update_colorHandle"
    /\ UNCHANGED <<fields, skeleton_positions_, bone_orientations_, colorStore, runtime,
                   host, isAvailable, copyPos, threads>>

\* ---- updater thread: the color frame ------------------------------------
\* if (h_colorFrameEvent && rgb_stream_enabled_), else the iteration ends
Update_ColorHandle ==
    /\ ppc = "update_colorHandle"
    /\ ppc' = IF h_colorFrameEvent # NULL /\ rgb_stream_enabled_
                THEN "update_colorWait" ELSE "update"
    /\ UNCHANGED <<fields, skeleton, colorStore, runtime, host, isAvailable, slot,
                   copyPos, threads>>

\* MsgWaitForMultipleObjects(handles, 3000) == WAIT_OBJECT_0 on the color event
Update_ColorWait ==
    /\ ppc = "update_colorWait"
    /\ IF colorStream.handleOpen /\ colorStream.signalled
         THEN /\ colorStream' = [colorStream EXCEPT !.signalled = FALSE]
              /\ ppc' = "update_colorArgs"
         ELSE /\ ppc' = "update"
              /\ UNCHANGED colorStream
    /\ UNCHANGED <<fields, skeleton, colorStore, sensorRefs, sensorOpen, deviceAvailable,
                   statusSubscribed, statusQueue, bodyStream, host, isAvailable, slot,
                   copyPos, threads>>

\* colorFrameReader && SUCCEEDED(colorFrameReader->GetFrameArrivedEventData(...))
Update_ColorArgs ==
    /\ ppc = "update_colorArgs"
    /\ \/ colorFrameReader # NULL /\ ppc' = "updateColorData"
       \/ ppc' = "update"
    /\ UNCHANGED <<fields, skeleton, colorStore, runtime, host, isAvailable, slot,
                   copyPos, threads>>

\* ResetBuffer() counted
Counted(h) == [h EXCEPT !.resets = IF h.resets < MaxResets THEN h.resets + 1 ELSE h.resets]

\* ResetBuffer(size) deleting the buffer and allocating a new one each time
ResetBuffer_Always(size) ==
    /\ color_buffer_' = IF size # 0 THEN 1 ELSE NULL
    /\ heap' = IF size # 0
                 THEN [Counted(heap) EXCEPT !.news = heap.news + 1, !.size = size]
                 ELSE [Counted(heap) EXCEPT !.size = 0]
    /\ size_in_bytes_' = size

\* ResetBuffer(size): delete[] and new BYTE[size] only without a buffer or for
\* another size; size_in_bytes_ = size
ResetBuffer(size) ==
    IF color_buffer_ = NULL \/ size_in_bytes_ # size
      THEN /\ color_buffer_' = IF size # 0 THEN 1 ELSE NULL
           /\ heap' = IF size # 0
                        THEN [Counted(heap) EXCEPT !.news = heap.news + 1, !.size = size]
                        ELSE [Counted(heap) EXCEPT !.size = 0]
           /\ size_in_bytes_' = size
      ELSE /\ heap' = Counted(heap)
           /\ UNCHANGED <<color_buffer_, size_in_bytes_>>

\* updateColorData(): no reader or no frame, return; else ResetBuffer and
\* CopyConvertedFrameDataToArray into the buffer, with no Release() of the
\* frame; pArgs->Release()
UpdateColorData ==
    /\ ppc = "updateColorData"
    /\ \/ /\ colorFrameReader # NULL
          /\ ResetBuffer(CameraBufferSize)
          /\ \E pixels \in Val : color_pixels' = pixels
          /\ heldFrames' = Acquired(heldFrames, "color")
          /\ UNCHANGED size_in_bytes_last_
       \/ UNCHANGED colorStore
    /\ ppc' = "update"
    /\ UNCHANGED <<fields, skeleton, runtime, host, isAvailable, slot, copyPos, threads>>

\* ---- the system ---------------------------------------------------------
Initialize ==
    \/ InitKinect_Open \/ InitKinect_OpenFailed \/ InitKinect_Available
    \/ InitializeSkeleton \/ InitializeColor \/ Initialize_Thread \/ Lifecycle_Return

Shutdown ==
    \/ CallShutdown \/ Shutdown_Enter \/ TerminateSkeleton \/ TerminateSkeleton_Clear
    \/ TerminateColor \/ TerminateColor_Clear \/ Shutdown_Flag \/ Shutdown_Close
    \/ Shutdown_Null

GetTrackedKinectJoints ==
    \/ CallGetTrackedKinectJoints \/ GetTrackedKinectJoints_Check
    \/ GetTrackedKinectJoints_Positions \/ GetTrackedKinectJoints_Orientations
    \/ GetTrackedKinectJoints_Return

\* update() up to the frames
Update_Availability ==
    \/ Update_Probe \/ Update_EventData \/ Update_Notify \/ StatusChangedHandler
    \/ Update_Guard \/ Update_Status

Update_Body(frames) ==
    \/ Update_BodyHandle \/ Update_BodyWait \/ Update_BodyArgs
    \/ UpdateSkeletalData_Acquire(frames) \/ UpdateSkeletalData_Slot \/ Copy_Positions
    \/ Copy_Orientations \/ UpdateSkeletalData_Return

Update_Color ==
    \/ Update_ColorWait \/ Update_ColorArgs \/ UpdateColorData

\* no fault has ended the process
Running == ppc # "crashed"

\* The life cycle: the host initializes and shuts down in any order while the
\* updater thread polls; the camera stays off, as it is after construction,
\* and every body frame is the same
Next ==
    \/ CallInitialize \/ Initialize \/ Shutdown
    \/ Update_Availability \/ Update_Body(OneFrame) \/ Update_ColorHandle
    \/ AvailabilityChanged \/ BodyFrameArrived

Spec == Init /\ [][Next]_vars

\* a wrapper that holds no sensor is initialized
FirstInitialize == kinectSensor = NULL /\ CallInitialize

\* The body frames: the host initializes a wrapper that holds no sensor and
\* reads the joints, and never shuts down; the camera stays off; the device
\* delivers every body frame
FrameNext ==
    \/ FirstInitialize \/ Initialize
    \/ GetTrackedKinectJoints
    \/ Update_Availability \/ Update_Body(AllFrames) \/ Update_ColorHandle
    \/ AvailabilityChanged \/ BodyFrameArrived

FrameSpec == Init /\ [][FrameNext]_vars

\* The color frames: as above, but the host switches the camera and the
\* device delivers color frames and no body frame
ColorNext ==
    \/ FirstInitialize \/ Initialize
    \/ SetCameraEnabled
    \/ Update_Availability \/ Update_BodyHandle \/ Update_BodyWait
    \/ Update_ColorHandle \/ Update_Color
    \/ AvailabilityChanged \/ ColorFrameArrived

ColorSpec == Init /\ [][ColorNext]_vars

\* The joint table and the coordinate mapper: the host initializes a wrapper
\* that holds no sensor and calls KinectJointType() and MapCoordinate()
FacadeNext ==
    \/ FirstInitialize \/ Initialize
    \/ CallKinectJointType \/ KinectJointType_At
    \/ CallMapCoordinate \/ MapCoordinate_Enter \/ MapCoordinate_Project
    \/ Facade_Return

FacadeSpec == Init /\ [][FacadeNext]_vars

\* update() and updateSkeletalData() on a runtime that answers the calls made
\* through a live reader: GetFrameArrivedEventData succeeds and
\* AcquireLatestFrame yields the frame
Update_BodyArgs_Live ==
    /\ Update_BodyArgs
    /\ (bodyFrameReader # NULL /\ bodyStream.live) => ppc' = "updateSkeletalData"

UpdateSkeletalData_Acquire_Live ==
    /\ UpdateSkeletalData_Acquire(OneFrame)
    /\ (bodyFrameReader # NULL /\ bodyStream.live) => ppc' = "updateSkeletalData_slot"

\* the updater thread on such a runtime
LiveUpdater ==
    \/ Update_Availability
    \/ Update_BodyHandle \/ Update_BodyWait \/ Update_BodyArgs_Live
    \/ UpdateSkeletalData_Acquire_Live \/ UpdateSkeletalData_Slot \/ Copy_Positions
    \/ Copy_Orientations \/ UpdateSkeletalData_Return
    \/ Update_ColorHandle

\* The life cycle on such a runtime: the host initializes a wrapper that
\* holds no sensor, shuts down and initializes again, the updater thread
\* always taking its next step
LiveNext ==
    \/ FirstInitialize \/ Initialize \/ Shutdown
    \/ LiveUpdater
    \/ AvailabilityChanged \/ BodyFrameArrived

LiveSpec == Init /\ [][LiveNext]_vars /\ WF_vars(LiveUpdater)

\* ---- fairness -----------------------------------------------------------
\* updater() is while (true) update() on a thread of its own, and every wait
\* of update() times out: the updater thread always takes its next step
Updater == Update_Availability \/ Update_Body(OneFrame) \/ Update_ColorHandle

FairSpec == Spec /\ WF_vars(Updater)

\* ---- claims -------------------------------------------------------------
\* C1: after shutdown() has returned 0 and before the next initialize() is
\* called, is_initialized() is false, whatever the updater thread does.
C1_FalseAfterShutdown == shutdownOk => ~is_initialized

\* C2: when initialize() returns 1 or -1, is_initialized() is false and no
\* availability-changed, body-frame or color-frame subscription made by that
\* call is left (a call that returns 1 has made none; a call that returns -1
\* has made the availability-changed one, and the others it still holds).
C2_NoPartialState ==
    (hpc = "initialize_return" /\ ret # 0) =>
        /\ ~is_initialized
        /\ ret = -1 => ~(statusSubscribed \/ bodyStream.subscribed \/ colorStream.subscribed)

\* the device handle, readers, subscription handles, subscriptions and flag
lifecycleState == <<kinectSensor, bodyFrameReader, colorFrameReader, h_statusChangedEvent,
                    h_bodyFrameEvent, h_colorFrameEvent, initialized_, sensorRefs,
                    sensorOpen, statusSubscribed, bodyStream, colorStream>>

\* C3: a shutdown() that follows a shutdown() which returned 0, or that finds
\* no sensor, returns 1 and changes neither the device handle, the readers,
\* the subscription handles nor the initialized flag.
C3_ShutdownIdempotent ==
    [][(hpc = "shutdown" /\ hpc' \notin {hpc, "crashed"}
            /\ (shutdownOk \/ kinectSensor = NULL)) =>
          (hpc' = "shutdown_return" /\ ret' = 1 /\ UNCHANGED lifecycleState)]_vars

\* C3 witness: the second shutdown() in a row has returned 1
C3_Witness == hpc = "shutdown_return" /\ ret = 1 /\ shutdownOk

\* C4: there is never more than one updater thread, and an initialize() that
\* returns 0 leaves exactly one.
C4_OneUpdaterThread ==
    /\ threads <= 1
    /\ (hpc = "initialize_return" /\ ret = 0) => threads = 1

\* C4 witness: an initialize() after a shutdown() reaches "Recreate the updater
\* thread" with the thread of an earlier initialize() running
C4_Witness ==
    /\ hpc = "initialize_thread" /\ updater_thread_ /\ threads = 1
    /\ sensorRefs = 1 /\ ppc \notin {"none", "crashed"}

\* C5: when shutdown() returns 0 the availability-changed, body-frame and
\* color-frame subscriptions are gone, the sensor is closed and the device
\* handle is null.
C5_AllUnsubscribed ==
    (hpc = "shutdown_return" /\ ret = 0) =>
        /\ ~statusSubscribed /\ ~bodyStream.subscribed /\ ~colorStream.subscribed
        /\ ~sensorOpen
        /\ kinectSensor = NULL

\* C6: with the camera enabled, the device initialized and a color frame
\* written to the buffer, GetImageBuffer() returns 1920*1080*4 = 8294400 bytes.
C6_ColorFrameSize ==
    (is_initialized /\ rgb_stream_enabled_ /\ color_buffer_ # NULL) =>
        GetImageBuffer = <<8294400>>

\* the frame being dispatched has no tracked body
NoTrackedBody == \A s \in Slots : ~kinectBodies[s].tracked

\* updateSkeletalData() holds a refreshed frame
InDispatch ==
    ppc \in {"updateSkeletalData_slot", "copy_positions", "copy_orientations",
             "updateSkeletalData_return"}

\* C7: a body-frame dispatch in which no slot reports tracked changes no
\* published joint position or orientation and ends with is_skeleton_tracked()
\* false.
C7_StaleOnLoss ==
    [][(InDispatch /\ NoTrackedBody) =>
          /\ skeleton_positions_' = skeleton_positions_
          /\ bone_orientations_' = bone_orientations_
          /\ ppc' = "updateSkeletalData_return" => ~skeleton_tracked']_vars

\* C7 witness: such a dispatch ends with the joints of an earlier frame
\* published and the flag false
C7_Witness ==
    /\ ppc = "updateSkeletalData_return" /\ NoTrackedBody
    /\ ~skeleton_tracked /\ skeleton_positions_ # ZeroJoints

\* C8: the list GetTrackedKinectJoints() returns holds the positions and
\* orientations of one single frame (the zeroes of construction counting as
\* one), never a mix of two.
C8_NoTornSnapshot ==
    (hpc = "joints_return" /\ trackedJoints # <<>>) =>
        \E v \in 0..MaxVal :
            \A j \in JointIdx :
                trackedJoints[j].Position = v /\ trackedJoints[j].Orientation = v

\* C9: the updater thread takes each pending availability-changed event off
\* the handle once, then sets initialized_ to the availability it reports and
\* calls status_changed_event() once; the listener is called for no other
\* reason; and while the device handle is held and the host makes no call, a
\* pending event leads to the call of the listener.
C9_OneCallbackPerEvent ==
    /\ [][/\ (ppc' # ppc /\ statusQueue # <<>> /\ statusQueue' = Tail(statusQueue)) =>
                (ppc' = "update_notify" /\ isAvailable' = Head(statusQueue))
          /\ (ppc = "update_notify" /\ ppc' # ppc) =>
                (initialized_' = isAvailable /\ ppc' = "status_changed_event")
          /\ (ppc' = "status_changed_event" /\ ppc' # ppc) => ppc = "update_notify"
          /\ (ppc = "status_changed_event" /\ ppc' # ppc) => ppc' = "update_guard"]_vars
    /\ (statusQueue # <<>> /\ ppc # "none" /\ kinectSensor # NULL) ~>
          (ppc = "status_changed_event" \/ hpc # "idle" \/ ~Running)

\* C9 witness: the listener is running for an event that reported the device
\* unavailable, and initialized_ is false
C9_Witness == ppc = "status_changed_event" /\ ~is_initialized /\ ~deviceAvailable

\* C10: while is_initialized() is false before and after a step, the step
\* changes neither the skeleton snapshot, the tracked flag nor the color buffer.
C10_InertWhileUninitialized ==
    [][(~initialized_ /\ ~initialized_') =>
          UNCHANGED <<skeleton_positions_, bone_orientations_, skeleton_tracked_,
                      color_buffer_, color_pixels>>]_vars

\* C11: GetTrackedKinectJoints() called while is_initialized() is false returns
\* the empty list; and with no updater thread yet (before any initialize(), or
\* after initialize() returned 1) is_initialized() is false, so the list
\* returned is empty.
C11_EmptyWhenUninitialized ==
    /\ [][(hpc = "GetTrackedKinectJoints" /\ hpc' \notin {hpc, "crashed"}
             /\ ~is_initialized) =>
            (hpc' = "joints_return" /\ trackedJoints' = <<>>)]_vars
    /\ []((hpc = "initialize_return" /\ ret = 1 /\ threads = 0) => ~is_initialized)
    /\ []((hpc = "joints_return" /\ threads = 0 /\ ~is_initialized) =>
            trackedJoints = <<>>)

\* C11 witness: the empty list is returned after an initialize() that found
\* the device unavailable and returned 1
C11_Witness ==
    /\ hpc = "joints_return" /\ trackedJoints = <<>> /\ ~is_initialized
    /\ sensorOpen /\ ~deviceAvailable /\ threads = 0

\* C12: the joint table has an entry for each of the 25 roles JointHead ...
\* JointFootTipRight and for nothing else, no two roles have the same native
\* joint, KinectJointType() of such a role returns its entry, and
\* KinectJointType() of JointManual or of any other integer throws
\* out_of_range.
C12_JointTableTotalInjective ==
    /\ DOMAIN KinectJointTypeDictionary = 0..(JointManual - 1)
    /\ \A a, b \in DOMAIN KinectJointTypeDictionary :
          KinectJointTypeDictionary[a] = KinectJointTypeDictionary[b] => a = b
    /\ hpc = "KinectJointType_return" =>
          IF invocation.in \in 0..(JointManual - 1)
            THEN invocation.out = KinectJointTypeDictionary[invocation.in]
            ELSE invocation.out = "out_of_range"

\* C12 witness: the lookup of JointManual has thrown
C12_Witness ==
    /\ hpc = "KinectJointType_return"
    /\ invocation.in = JointManual /\ invocation.out = "out_of_range"

\* C13: MapCoordinate() never hands a depth below zero to the coordinate
\* mapper: a point with z < 0 is projected at a small positive depth.
C13_NegativeDepthClamped ==
    (hpc = "MapCameraPointToColorSpace" /\ invocation.in < 0) => invocation.native > 0

\* C14: a shutdown() in which UnsubscribeFrameArrived of the body or color
\* reader fails returns -1 at once, and a shutdown() that returns 0 has
\* unsubscribed both readers.
C14_UnsubscribeFailureIsError ==
    /\ [][(hpc \in {"terminateSkeleton", "terminateColor"} /\ hpc' = "shutdown_return") =>
            (ret' = -1 /\ UNCHANGED <<bodyStream, colorStream>>)]_vars
    /\ []((hpc = "shutdown_return" /\ ret = 0) =>
            (~bodyStream.subscribed /\ ~colorStream.subscribed))

\* C14 witness: shutdown() has returned -1 with the body reader still
\* subscribed
C14_Witness ==
    /\ hpc = "shutdown_return" /\ ret = -1
    /\ bodyFrameReader # NULL /\ bodyStream.subscribed

\* C15: the updater thread waits on the body-frame event only while the
\* handle is open, and reads event data or a frame through the body-frame
\* reader only while the reader is not released.
C15_NoUseAfterClose ==
    [][/\ (ppc = "update_bodyWait" /\ ppc' # ppc) => bodyStream.handleOpen
       /\ (ppc = "update_bodyArgs" /\ ppc' = "updateSkeletalData") => bodyStream.live
       /\ (ppc = "updateSkeletalData" /\ ppc' = "updateSkeletalData_slot") =>
             bodyStream.live]_vars

\* the lowest slot of the frame being dispatched that reports tracked
FirstTracked ==
    CHOOSE s \in Slots :
        kinectBodies[s].tracked /\ \A t \in Slots : kinectBodies[t].tracked => s <= t

\* C16: a body-frame dispatch of a frame with a tracked slot ends with
\* is_skeleton_tracked() true and with the joint positions and orientations of
\* the lowest tracked slot published; the loop stops at that slot.
C16_FirstTrackedWins ==
    (ppc = "updateSkeletalData_return" /\ ~NoTrackedBody) =>
        /\ skeleton_tracked
        /\ slot = FirstTracked
        /\ skeleton_positions_ = [j \in JointIdx |-> kinectBodies[FirstTracked].data]
        /\ bone_orientations_ = [j \in JointIdx |-> kinectBodies[FirstTracked].data]

\* C16 witness: two slots report tracked with different joints, and the
\* dispatch has published those of the first
C16_Witness ==
    /\ ppc = "updateSkeletalData_return"
    /\ kinectBodies[1].tracked /\ kinectBodies[2].tracked
    /\ kinectBodies[1].data # kinectBodies[2].data
    /\ skeleton_positions_ = [j \in JointIdx |-> kinectBodies[1].data]

\* C17: ResetBuffer() allocates only without a buffer or for another size:
\* however many color frames are dispatched and however the camera is
\* switched, at most one array is ever allocated, a buffer that exists is the
\* one array allocated, and size_in_bytes_ is the size of the live array.
C17_AllocatedOnce ==
    /\ heap.news <= 1
    /\ color_buffer_ # NULL <=> heap.news = 1
    /\ size_in_bytes_ = heap.size
    /\ heap.resets > 0 => (color_buffer_ # NULL /\ heap.size = CameraBufferSize)

\* C17 witness: ResetBuffer() has run for a second color frame with the one
\* array still in place, and the camera is switched off
C17_Witness ==
    /\ heap.resets = 2 /\ heap.news = 1 /\ color_buffer_ # NULL
    /\ ppc = "update" /\ ~rgb_stream_enabled_

\* C18: the wrapper never holds more than one reference to the sensor:
\* initialize() acquires none while one acquired earlier is unreleased.
C18_OneSensorHandle == sensorRefs <= 1

\* C19: once the updater thread is started it never stops: whatever the last
\* iteration of update() did, the thread has a next step to take.
C19_LoopNeverExits == ppc # "none" => ENABLED Updater

\* is_initialized() is true, a sensor is held and open with both readers
\* subscribed, the updater thread runs and the host is in no call: what an
\* initialize() that returned 0 leaves
SessionUp ==
    /\ hpc = "idle" /\ Running /\ ppc # "none"
    /\ is_initialized /\ kinectSensor # NULL /\ sensorOpen
    /\ bodyFrameReader # NULL /\ bodyStream.live /\ bodyStream.subscribed
    /\ colorFrameReader # NULL /\ colorStream.live

\* C20: with the session set up by an initialize() that returned 0 (the first,
\* or one after a shutdown()), a body frame that has arrived is dispatched by
\* the updater thread, unless the device becomes unavailable or the host makes
\* another call first.
C20_ResumesAfterReinitialize ==
    (SessionUp /\ deviceAvailable /\ bodyStream.signalled) ~>
        (ppc = "updateSkeletalData_slot" \/ ~deviceAvailable \/ hpc # "idle")

\* C21: when an iteration of update() has ended, every body frame and every
\* color frame that its dispatch acquired has been released.
C21_FramesReleased ==
    ppc = "update" => (heldFrames.body = 0 /\ heldFrames.color = 0)

\* C22: while a frame with a tracked body is dispatched, is_skeleton_tracked()
\* does not go from true (what the dispatch of a frame with a tracked body
\* left) to false: the host reads true at every point of the dispatch.
C22_NoFlicker ==
    [][(InDispatch /\ ~NoTrackedBody /\ skeleton_tracked) => skeleton_tracked']_vars

====
